---- MODULE Spec2Model ----
(***************************************************************************)
(* dyPolyChord/output_processing.py: combining the initial exploratory     *)
(* run (init) and the dynamic run (dyn) of dynamic nested sampling.        *)
(*                                                                         *)
(* A run is a record of index-parallel arrays: logl (ascending),           *)
(* thread_labels (0-based labels, as in the source) and thread_min_max     *)
(* (one <<birth, death>> row per thread; row r of the source is element    *)
(* r + 1 here).  theta and nlive_array are sliced and deleted with the     *)
(* same indices as logl everywhere in the source, so they are not carried. *)
(* Positions in arrays are 1-based here; enumerate() counters and thread   *)
(* labels keep the source's 0-based values.                                *)
(***************************************************************************)
EXTENDS Integers, Sequences, FiniteSets, TLC

\* Spec: logl values of the generated runs are 0..MaxLogl
MaxLogl == 3
\* Spec: the init run has at most MaxThreads threads
MaxThreads == 2
\* the dyn run has at most MaxDynThreads threads
MaxDynThreads == 2
\* SpecWide: logl values 0..WideMaxLogl, at most WideMaxThreads init threads
WideMaxLogl == 4
WideMaxThreads == 3
\* SpecExample: the dyn runs have logl values 0..ExMaxLogl
ExMaxLogl == 6
\* the batch loop handles at most MaxRuns runs
MaxRuns == 3
\* -np.inf: below every logl value
NegInf == -1

VARIABLES
    dynamic_goal,       \* argument of process_dypolychord_run
    dyn_info,           \* the resume record loaded for dynamic_goal = 1
    init0,              \* init as loaded (never changed)
    init,               \* init, mutated in place by combine_resumed_dyn_run
    dyn,                \* the dynamic run
    pc,                 \* position in process_dypolychord_run
    th_i,               \* enumerate() counter of the loop at line 126
    live_inds,          \* positions of the live points found so far
    empty_thread_inds,  \* enumerate() counters of threads found empty
    run,                \* the local variable run
    checked,            \* the run handed to check_ns_run
    result,             \* the value returned to the caller
    raised,             \* the assertion that failed, or "none"
    b_pc,               \* position in get_dypolychord_data
    n_runs, load, save_kw,  \* arguments of get_dypolychord_data
    cache_hit,          \* whether pickle_load finds the cached file
    save,               \* the local variable save
    b_i,                \* loop variable of line 57
    attempted,          \* <<run index, outcome>> of each call made at line 59
    data, errors,
    saved,              \* what was written to the cache, or NoData
    b_result            \* the value get_dypolychord_data returned

pvars == <<dynamic_goal, dyn_info, init0, init, dyn, pc, th_i, live_inds,
           empty_thread_inds, run, checked, result, raised>>
bvars == <<b_pc, n_runs, load, save_kw, cache_hit, save, b_i, attempted, data, errors,
           saved, b_result>>
vars == <<pvars, bvars>>

NoRun == [logl |-> <<>>, thread_labels |-> <<>>, thread_min_max |-> <<>>,
          output |-> "no run"]
NoOutput == [nlike |-> -1]
\* nothing written to the cache, nothing returned
NoData == [from |-> "nothing", data |-> <<>>]

----------------------------------------------------------------------------
(* numpy helpers *)

Range(s) == {s[j] : j \in DOMAIN s}

Min(a, b) == IF a <= b THEN a ELSE b

SetMin(S) == CHOOSE m \in S : \A x \in S : m <= x

RECURSIVE SortedSeq(_)
SortedSeq(S) == IF S = {} THEN <<>>
                ELSE LET m == SetMin(S) IN <<m>> \o SortedSeq(S \ {m})

\* np.unique(a): the sorted distinct values
np_unique(a) == SortedSeq(Range(a))

\* np.where(a == v)[0]: the positions holding v, ascending
np_where(a, v) == SortedSeq({j \in DOMAIN a : a[j] = v})

\* a[:n]
Prefix(a, n) == SubSeq(a, 1, Min(n, Len(a)))

\* a[n:]
Suffix(a, n) == SubSeq(a, n + 1, Len(a))

\* np.array_equal(a, b): same shape and same elements
np_array_equal(a, b) == Len(a) = Len(b) /\ \A j \in DOMAIN a : a[j] = b[j]

RECURSIVE KeepOutside(_, _, _)
KeepOutside(a, inds, j) ==
    IF j > Len(a) THEN <<>>
    ELSE (IF j \in inds THEN <<>> ELSE <<a[j]>>) \o KeepOutside(a, inds, j + 1)

\* np.delete(a, inds): a without the positions in inds
np_delete(a, inds) == KeepOutside(a, Range(inds), 1)

\* the logl values of the points of a run that carry label th, in run order
ThreadLogl(r, th) ==
    LET w == np_where(r.thread_labels, th)
    IN  [j \in DOMAIN w |-> r.logl[w[j]]]

----------------------------------------------------------------------------
(* the runs process_polychord_run can hand over *)

Labelings(k, T) ==
    {f \in [1..k -> 0..(T - 1)] : \E t \in 1..T : Range(f) = 0..(t - 1)}

\* a run with every thread seeded at -inf and ending at its last point
MkRun(logl, labs) ==
    [logl |-> logl,
     thread_labels |-> labs,
     thread_min_max |->
        [r \in 1..Cardinality(Range(labs)) |->
            LET w == np_where(labs, r - 1) IN <<NegInf, logl[w[Len(w)]]>>],
     output |-> [nlike |-> Len(logl)]]

\* init: strictly ascending logl in 0..maxLogl, threads labelled 0..T-1
InitRuns(maxLogl, maxThreads) ==
    UNION {{MkRun(SortedSeq(S), lab) : lab \in Labelings(Cardinality(S), maxThreads)}
           : S \in (SUBSET (0..maxLogl)) \ {{}}}

\* dyn: strictly ascending logl in 0..maxLogl, points dealt to its threads in turn
DynRuns(maxLogl, maxThreads) ==
    UNION {{MkRun(SortedSeq(S), [j \in 1..Cardinality(S) |-> (j - 1) % T])
            : T \in 1..Min(maxThreads, Cardinality(S))}
           : S \in (SUBSET (0..maxLogl)) \ {{}}}

----------------------------------------------------------------------------
(* combine_resumed_dyn_run, lines 110-160 *)

\* as prefix_matches, comparing only the positions both prefixes have
prefix_matches_common(i, d, n) ==
    \A j \in 1..Min(n, Min(Len(i.logl), Len(d.logl))) : i.logl[j] = d.logl[j]

\* line 117: the first resume_ndead logl values agree position for position
prefix_matches(i, d, n) == np_array_equal(Prefix(i.logl, n), Prefix(d.logl, n))

\* as trim_prefix, keeping every point
trim_prefix_none(i, n) == i

\* as trim_prefix, dropping one point too few
trim_prefix_short(i, n) ==
    [i EXCEPT !.logl = Suffix(@, IF n > 0 THEN n - 1 ELSE 0),
              !.thread_labels = Suffix(@, IF n > 0 THEN n - 1 ELSE 0)]

\* lines 119-121: drop the first n points of init
trim_prefix(i, n) ==
    [i EXCEPT !.logl = Suffix(@, n), !.thread_labels = Suffix(@, n)]

\* as live_ind, taking the thread's last point
live_ind_last(th_inds) == th_inds[Len(th_inds)]

\* lines 128-129: th_inds[0], the position of the thread's first remaining point
live_ind(th_inds) == th_inds[1]

\* as live_point_in_dyn, with the assertion of line 132 left out
live_point_unchecked(d, live_logl) == TRUE

\* line 132: the live point occurs in dyn exactly once
live_point_in_dyn(d, live_logl) == Len(np_where(d.logl, live_logl)) = 1

\* line 134: the row of thread_min_max whose birth is overwritten, given the
\* enumerate() counter i and the thread label th_lab of the iteration
birth_row(i, th_lab) == i + 1

\* lines 136-138: remove the live points
delete_live(i, inds) ==
    [i EXCEPT !.logl = np_delete(@, inds), !.thread_labels = np_delete(@, inds)]

\* lines 142-143: rows of the empty threads removed from thread_min_max
delete_empty_rows(tmm, empties) ==
    np_delete(tmm, [j \in DOMAIN empties |-> empties[j] + 1])

\* lines 150-151 for every surviving thread, in np.unique order
relabel_asserts_hold(i, tmm) ==
    LET uniq == np_unique(i.thread_labels)
    IN  \A k \in DOMAIN uniq :
            LET tl == ThreadLogl(i, uniq[k])
            IN  /\ tmm[k][1] <= tl[1]
                /\ tmm[k][2] = tl[Len(tl)]

\* lines 145-148, 153: each label replaced by its rank among those left
thread_labels_new(labs) ==
    LET uniq == np_unique(labs)
    IN  [j \in DOMAIN labs |-> (CHOOSE k \in DOMAIN uniq : uniq[k] = labs[j]) - 1]

\* line 156: init's labels continue on from dyn's
shift_labels(i, d) ==
    [i EXCEPT !.thread_labels =
        [j \in DOMAIN @ |-> @[j] + Len(d.thread_min_max)]]

----------------------------------------------------------------------------
(* nestcheck.analyse_run: thread decomposition and merging *)

\* one thread per label present, paired with the rows of thread_min_max in
\* label order
get_run_threads(r) ==
    LET uniq == np_unique(r.thread_labels)
    IN  [k \in DOMAIN uniq |->
            [logl |-> ThreadLogl(r, uniq[k]), min_max |-> r.thread_min_max[k]]]

\* the points <<logl, label>> of thread k (labelled k - 1) of a pool
PoolPoints(pool, k) == [j \in DOMAIN pool[k].logl |-> <<pool[k].logl[j], k - 1>>]

RECURSIVE AllPoints(_, _)
AllPoints(pool, k) ==
    IF k > Len(pool) THEN <<>> ELSE PoolPoints(pool, k) \o AllPoints(pool, k + 1)

\* p inserted into the logl-sorted sequence s, after its equals
Insert(s, p) ==
    LET n == Cardinality({j \in DOMAIN s : s[j][1] <= p[1]})
    IN  SubSeq(s, 1, n) \o <<p>> \o SubSeq(s, n + 1, Len(s))

RECURSIVE SortByLogl(_)
SortByLogl(s) ==
    IF s = <<>> THEN <<>>
    ELSE Insert(SortByLogl(SubSeq(s, 1, Len(s) - 1)), s[Len(s)])

\* every birth is -inf or the logl of a point of another thread of the pool
births_traceable(pool) ==
    \A k \in DOMAIN pool :
        \/ pool[k].min_max[1] = NegInf
        \/ \E u \in DOMAIN pool : u # k /\ pool[k].min_max[1] \in Range(pool[u].logl)

\* all points of the pool in one logl-sorted run
combine_threads(pool) ==
    LET pts == SortByLogl(AllPoints(pool, 1))
    IN  [logl |-> [j \in DOMAIN pts |-> pts[j][1]],
         thread_labels |-> [j \in DOMAIN pts |-> pts[j][2]],
         thread_min_max |-> [k \in DOMAIN pool |-> pool[k].min_max],
         output |-> NoOutput]

\* line 93: the plain union of the threads of init and dyn
combine_ns_runs(i, d) == combine_threads(get_run_threads(i) \o get_run_threads(d))

----------------------------------------------------------------------------
(* process_dypolychord_run, lines 81-107 *)

\* as returned_run, the run going back whatever check_ns_run found
returned_run_unchecked(r, ok) == r

\* lines 106-107: the run goes back to the caller only if check_ns_run passes
returned_run(r, ok) == IF ok THEN r ELSE NoRun

Raise(what) == /\ pc' = "raised"
               /\ raised' = what

\* the state on entry to process_dypolychord_run, init and dyn drawn from
\* the given sets
PInit(inits, dyns) ==
    /\ dynamic_goal \in {0, 1, 2}
    /\ init0 \in inits
    /\ init = init0
    /\ dyn \in dyns
    /\ dyn_info \in {[resume_ndead |-> n, resume_nlike |-> n] :
                        n \in IF dynamic_goal = 1 THEN 0..Len(init0.logl) ELSE {0}}
    /\ pc = "start"
    /\ th_i = 0
    /\ live_inds = <<>>
    /\ empty_thread_inds = <<>>
    /\ run = NoRun
    /\ checked = NoRun
    /\ result = NoRun
    /\ raised = "none"

\* lines 82-90
LoadRuns ==
    /\ pc = "start"
    /\ IF dynamic_goal \notin {0, 1}
       THEN Raise("dynamic_goal")
       ELSE IF \E r \in DOMAIN init.thread_min_max : init.thread_min_max[r][1] # NegInf
       THEN Raise("init birth")
       ELSE /\ pc' = IF dynamic_goal = 0 THEN "combine_ns_runs" ELSE "assert_prefix"
            /\ UNCHANGED raised
    /\ UNCHANGED <<dynamic_goal, dyn_info, init0, init, dyn, th_i, live_inds,
                   empty_thread_inds, run, checked, result>>
    /\ UNCHANGED bvars

\* lines 93-95
CombineNsRuns ==
    /\ pc = "combine_ns_runs"
    /\ run' = [combine_ns_runs(init, dyn) EXCEPT
                  !.output = [nlike |-> init.output.nlike + dyn.output.nlike]]
    /\ pc' = "check_ns_run"
    /\ UNCHANGED <<dynamic_goal, dyn_info, init0, init, dyn, th_i, live_inds,
                   empty_thread_inds, checked, result, raised>>
    /\ UNCHANGED bvars

\* lines 99-100, 117-118
AssertPrefix ==
    /\ pc = "assert_prefix"
    /\ IF prefix_matches(init, dyn, dyn_info.resume_ndead)
       THEN pc' = "trim" /\ UNCHANGED raised
       ELSE Raise("duplicate prefix")
    /\ UNCHANGED <<dynamic_goal, dyn_info, init0, init, dyn, th_i, live_inds,
                   empty_thread_inds, run, checked, result>>
    /\ UNCHANGED bvars

\* lines 119-125
TrimPrefix ==
    /\ pc = "trim"
    /\ init' = trim_prefix(init, dyn_info.resume_ndead)
    /\ th_i' = 0
    /\ live_inds' = <<>>
    /\ empty_thread_inds' = <<>>
    /\ pc' = "live_loop"
    /\ UNCHANGED <<dynamic_goal, dyn_info, init0, dyn, run, checked, result, raised>>
    /\ UNCHANGED bvars

\* lines 126-134, one iteration
LiveIter ==
    /\ pc = "live_loop"
    /\ th_i < Len(np_unique(init.thread_labels))
    /\ LET th_lab == np_unique(init.thread_labels)[th_i + 1]
           th_inds == np_where(init.thread_labels, th_lab)
           live_logl == init.logl[live_ind(th_inds)]
       IN  /\ live_inds' = Append(live_inds, live_ind(th_inds))
           /\ empty_thread_inds' = IF Len(th_inds) = 1
                                   THEN Append(empty_thread_inds, th_i)
                                   ELSE empty_thread_inds
           /\ IF live_point_in_dyn(dyn, live_logl)
              THEN /\ init' = [init EXCEPT
                          !.thread_min_max[birth_row(th_i, th_lab)][1] = live_logl]
                   /\ th_i' = th_i + 1
                   /\ UNCHANGED <<pc, raised>>
              ELSE /\ Raise("live point")
                   /\ UNCHANGED <<init, th_i>>
    /\ UNCHANGED <<dynamic_goal, dyn_info, init0, dyn, run, checked, result>>
    /\ UNCHANGED bvars

\* lines 136-138, 140
DeleteLive ==
    /\ pc = "live_loop"
    /\ th_i = Len(np_unique(init.thread_labels))
    /\ init' = delete_live(init, live_inds)
    /\ pc' = IF empty_thread_inds # <<>> THEN "relabel" ELSE "merge"
    /\ UNCHANGED <<dynamic_goal, dyn_info, init0, dyn, th_i, live_inds,
                   empty_thread_inds, run, checked, result, raised>>
    /\ UNCHANGED bvars

\* lines 142-153
Relabel ==
    /\ pc = "relabel"
    /\ LET tmm == delete_empty_rows(init.thread_min_max, empty_thread_inds)
       IN  IF relabel_asserts_hold(init, tmm)
           THEN /\ init' = [init EXCEPT
                       !.thread_min_max = tmm,
                       !.thread_labels = thread_labels_new(@)]
                /\ pc' = "merge"
                /\ UNCHANGED raised
           ELSE /\ init' = [init EXCEPT !.thread_min_max = tmm]
                /\ Raise("thread bound")
    /\ UNCHANGED <<dynamic_goal, dyn_info, init0, dyn, th_i, live_inds,
                   empty_thread_inds, run, checked, result>>
    /\ UNCHANGED bvars

\* lines 156-160, then 101-104
MergeThreads ==
    /\ pc = "merge"
    /\ init' = shift_labels(init, dyn)
    /\ LET pool == get_run_threads(dyn) \o get_run_threads(init')
       IN  IF births_traceable(pool)
           THEN /\ run' = [combine_threads(pool) EXCEPT
                       !.output = [nlike |-> init.output.nlike + dyn.output.nlike
                                              - dyn_info.resume_nlike]]
                /\ pc' = "check_ns_run"
                /\ UNCHANGED raised
           ELSE /\ Raise("orphan birth")
                /\ UNCHANGED run
    /\ UNCHANGED <<dynamic_goal, dyn_info, init0, dyn, th_i, live_inds,
                   empty_thread_inds, checked, result>>
    /\ UNCHANGED bvars

\* lines 106-107: check_ns_run passes or raises
CheckNsRun ==
    /\ pc = "check_ns_run"
    /\ checked' = run
    /\ \E ok \in BOOLEAN :
          /\ result' = returned_run(run, ok)
          /\ IF ok THEN pc' = "returned" /\ UNCHANGED raised
             ELSE Raise("check_ns_run")
    /\ UNCHANGED <<dynamic_goal, dyn_info, init0, init, dyn, th_i, live_inds,
                   empty_thread_inds, run>>
    /\ UNCHANGED bvars

----------------------------------------------------------------------------
(* get_dypolychord_data, lines 37-78 *)

\* the exception classes line 61 catches
Caught == {"OSError", "AssertionError", "KeyError"}

\* what one call of process_dypolychord_run can do: return, raise a class
\* line 61 catches, or raise any other class
Outcomes == {"ok", "other"} \cup Caught

\* lines 62-65: run index i recorded under the exception's class name
record_error(errs, name, i) == [errs EXCEPT ![name] = Append(@, i)]

\* as save_after_errors, looking at the OSError list only
save_after_oserror(sv, errs) == sv /\ errs["OSError"] = <<>>

\* lines 66-68, 74: save survives only if no error list has an entry
save_after_errors(sv, errs) == sv /\ \A name \in Caught : errs[name] = <<>>

BInit ==
    /\ b_pc = "start"
    /\ n_runs \in 0..MaxRuns
    /\ load \in BOOLEAN
    /\ save_kw \in BOOLEAN
    /\ cache_hit \in BOOLEAN
    /\ save = save_kw
    /\ b_i = 1
    /\ attempted = <<>>
    /\ data = <<>>
    /\ errors = [name \in Caught |-> <<>>]
    /\ saved = NoData
    /\ b_result = NoData

\* lines 49-55
LoadCache ==
    /\ b_pc = "start"
    /\ IF load /\ cache_hit
       THEN b_pc' = "returned" /\ b_result' = [from |-> "cache", data |-> <<>>]
       ELSE b_pc' = "loop" /\ UNCHANGED b_result
    /\ UNCHANGED <<n_runs, load, save_kw, cache_hit, save, b_i, attempted, data,
                   errors, saved>>
    /\ UNCHANGED pvars

\* lines 57-65, one iteration
ProcessRun ==
    /\ b_pc = "loop"
    /\ b_i <= n_runs
    /\ \E out \in Outcomes :
        /\ attempted' = Append(attempted, <<b_i, out>>)
        /\ IF out = "ok"
           THEN /\ data' = Append(data, b_i)
                /\ b_i' = b_i + 1
                /\ UNCHANGED <<errors, b_pc>>
           ELSE IF out \in Caught
           THEN /\ errors' = record_error(errors, out, b_i)
                /\ b_i' = b_i + 1
                /\ UNCHANGED <<data, b_pc>>
           ELSE /\ b_pc' = "raised"
                /\ UNCHANGED <<data, errors, b_i>>
    /\ UNCHANGED <<n_runs, load, save_kw, cache_hit, save, saved, b_result>>
    /\ UNCHANGED pvars

\* lines 66-78
SaveAndReturn ==
    /\ b_pc = "loop"
    /\ b_i > n_runs
    /\ save' = save_after_errors(save, errors)
    /\ saved' = IF save' THEN [from |-> "runs", data |-> data] ELSE saved
    /\ b_result' = [from |-> "runs", data |-> data]
    /\ b_pc' = "returned"
    /\ UNCHANGED <<n_runs, load, save_kw, cache_hit, b_i, attempted, data, errors>>
    /\ UNCHANGED pvars

BNext ==
    \/ LoadCache
    \/ ProcessRun
    \/ SaveAndReturn

----------------------------------------------------------------------------
(* specifications *)

\* no call of get_dypolychord_data in progress
BIdle ==
    /\ b_pc = "idle" /\ n_runs = 0 /\ load = FALSE /\ save_kw = FALSE
    /\ cache_hit = FALSE /\ save = FALSE /\ b_i = 0 /\ attempted = <<>>
    /\ data = <<>> /\ errors = <<>> /\ saved = NoData /\ b_result = NoData

\* no call of process_dypolychord_run in progress
PIdle ==
    /\ dynamic_goal = 0 /\ dyn_info = [resume_ndead |-> 0, resume_nlike |-> 0]
    /\ init0 = NoRun /\ init = NoRun /\ dyn = NoRun /\ pc = "idle" /\ th_i = 0
    /\ live_inds = <<>> /\ empty_thread_inds = <<>> /\ run = NoRun
    /\ checked = NoRun /\ result = NoRun /\ raised = "none"

\* the worked example's init: thread A (label 0) has logl 0, 1, 5 and
\* thread B (label 1) has logl 2, 3
ExInit == MkRun(<<0, 1, 2, 3, 5>>, <<0, 0, 1, 1, 0>>)

Init == PInit(InitRuns(MaxLogl, MaxThreads), DynRuns(MaxLogl, MaxDynThreads)) /\ BIdle

InitWide ==
    PInit(InitRuns(WideMaxLogl, WideMaxThreads), DynRuns(WideMaxLogl, MaxDynThreads))
    /\ BIdle

InitExample == PInit({ExInit}, DynRuns(ExMaxLogl, MaxDynThreads)) /\ BIdle

InitBatch == PIdle /\ BInit

Next ==
    \/ LoadRuns
    \/ CombineNsRuns
    \/ AssertPrefix
    \/ TrimPrefix
    \/ LiveIter
    \/ DeleteLive
    \/ Relabel
    \/ MergeThreads
    \/ CheckNsRun

Spec == Init /\ [][Next]_vars

SpecWide == InitWide /\ [][Next]_vars

SpecExample == InitExample /\ [][Next]_vars

SpecBatch == InitBatch /\ [][BNext]_vars

----------------------------------------------------------------------------
(* properties *)

\* number of occurrences of v in the sequence s
Count(s, v) == Cardinality({j \in DOMAIN s : s[j] = v})

StrictlyAscending(s) == \A j \in 1..(Len(s) - 1) : s[j] < s[j + 1]

Ascending(s) == \A j \in 1..(Len(s) - 1) : s[j] <= s[j + 1]

\* the resumed path, dynamic_goal = 1
Resumed == dynamic_goal = 1

\* positions of init as loaded that lie beyond the dropped prefix and carry label th
Remaining(th) ==
    {j \in DOMAIN init0.logl :
        j > dyn_info.resume_ndead /\ init0.thread_labels[j] = th}

\* position in init as loaded of the first remaining point of thread th
FirstRemaining(th) == SetMin(Remaining(th))

\* labels of init as loaded
Labels0 == Range(init0.thread_labels)

\* some position of the first resume_ndead differs, or dyn has no such position
PrefixDiffers ==
    \E j \in 1..dyn_info.resume_ndead :
        j > Len(dyn.logl) \/ dyn.logl[j] # init0.logl[j]

\* C1: on the resumed path, when the first resume_ndead logl values of init
\* and dyn differ at some position (dyn being too short included), the run
\* stops at the prefix assertion: init is untouched, no live point has been
\* looked at, no merge was made and nothing is returned.
C1_MismatchDetected ==
    (Resumed /\ PrefixDiffers) =>
        /\ pc \in {"start", "assert_prefix", "raised"}
        /\ pc = "raised" => raised = "duplicate prefix"
        /\ init = init0
        /\ live_inds = <<>>
        /\ run = NoRun
        /\ result = NoRun

C1_Witness ==
    /\ Resumed
    /\ Len(dyn.logl) < dyn_info.resume_ndead
    /\ pc = "raised"
    /\ raised = "duplicate prefix"

\* the worked example: init with thread A (0, 1, 5) and thread B (2, 3),
\* resume_ndead = 3, dyn with logl 0, 1, 2, 4, 6, on the resumed path
IsExample ==
    /\ Resumed
    /\ init0 = ExInit
    /\ dyn_info.resume_ndead = 3
    /\ dyn.logl = <<0, 1, 2, 4, 6>>

\* each thread of the run r is born at or below its first point and dies at
\* its last point, row k of thread_min_max belonging to label k - 1
BoundsBracket(r) ==
    \A k \in DOMAIN r.thread_min_max :
        LET tl == ThreadLogl(r, k - 1)
        IN  /\ tl # <<>>
            /\ r.thread_min_max[k][1] <= tl[1]
            /\ r.thread_min_max[k][2] = tl[Len(tl)]

\* C2 as stated: on the worked example the resumed combination raises nothing
\* and hands over a merged run with logl 0, 1, 2, 4, 5, 6, two threads,
\* strictly ascending, every thread's bounds bracketing its points.
C2_ExampleMerges ==
    IsExample =>
        /\ raised \notin {"duplicate prefix", "live point", "thread bound",
                          "orphan birth"}
        /\ pc \in {"check_ns_run", "returned"} =>
              /\ run.logl = <<0, 1, 2, 4, 5, 6>>
              /\ Len(run.thread_min_max) = 2
              /\ StrictlyAscending(run.logl)
              /\ BoundsBracket(run)

\* C2 amended: on the worked example the prefix assertion passes, the first
\* three points of init are dropped, and the first iteration of the live-point
\* loop (thread A, whose first remaining point has logl 5, which dyn lacks)
\* fails its assertion; no merge is made and no run is returned.
C2_ExampleRejected ==
    IsExample =>
        /\ pc \in {"start", "assert_prefix", "trim", "live_loop", "raised"}
        /\ pc = "raised" =>
              /\ raised = "live point"
              /\ th_i = 0
              /\ init.logl = <<3, 5>>
              /\ live_inds = <<2>>
        /\ run = NoRun
        /\ result = NoRun

C2_Witness ==
    /\ IsExample
    /\ pc = "raised"
    /\ raised = "live point"

\* the logl values of the first remaining point of every init thread that
\* still has a point beyond the dropped prefix
LiveLogls == {init0.logl[FirstRemaining(th)] : th \in {t \in Labels0 : Remaining(t) # {}}}

\* C3 as stated: with resume_ndead = 0 the resumed combination hands over the
\* same multiset of points as the plain union of init and dyn.
C3_SameAsUnion ==
    (Resumed /\ dyn_info.resume_ndead = 0 /\ pc = "check_ns_run") =>
        \A v \in 0..MaxLogl :
            Count(run.logl, v) = Count(init0.logl, v) + Count(dyn.logl, v)

\* C3 amended: with resume_ndead = 0 the resumed combination, when it
\* completes, hands over the points of the plain union of init and dyn less
\* one copy of the first point of every init thread, each of which occurs in
\* dyn; with a non-empty init it is never the plain union.
C3_UnionLessLivePoints ==
    (Resumed /\ dyn_info.resume_ndead = 0 /\ pc = "check_ns_run") =>
        /\ LiveLogls \subseteq Range(dyn.logl)
        /\ LiveLogls # {}
        /\ \A v \in 0..MaxLogl :
              Count(run.logl, v) + (IF v \in LiveLogls THEN 1 ELSE 0)
                 = Count(init0.logl, v) + Count(dyn.logl, v)

C3_Witness ==
    /\ Resumed
    /\ dyn_info.resume_ndead = 0
    /\ pc = "check_ns_run"
    /\ Cardinality(LiveLogls) = 2
    /\ Len(run.logl) > Len(dyn.logl)

\* the logl values of the init points that reach the merge: all of them for
\* dynamic_goal = 0; for dynamic_goal = 1 those beyond the dropped prefix
\* that are not the first remaining point of their thread
KeptLogls ==
    IF Resumed
    THEN {init0.logl[j] : j \in {k \in DOMAIN init0.logl :
              /\ k > dyn_info.resume_ndead
              /\ k # FirstRemaining(init0.thread_labels[k])}}
    ELSE Range(init0.logl)

\* C4 as stated: every run the combination hands over (either path) is
\* strictly ascending in logl.
C4_StrictlyAscending ==
    pc = "check_ns_run" => StrictlyAscending(run.logl)

\* C4 amended: every run the combination hands over is ascending in logl, and
\* it is strictly ascending exactly when dyn shares no logl value with the
\* init points that reach the merge.
C4_AscendingStrictIffDisjoint ==
    pc = "check_ns_run" =>
        /\ Ascending(run.logl)
        /\ StrictlyAscending(run.logl) <=> (KeptLogls \cap Range(dyn.logl) = {})

C4_Witness ==
    /\ Resumed
    /\ pc = "check_ns_run"
    /\ dyn_info.resume_ndead > 0
    /\ KeptLogls # {}
    /\ StrictlyAscending(run.logl)

\* just after the live points were deleted, no relabelling done yet
JustDeleted == pc = "relabel" \/ (pc = "merge" /\ empty_thread_inds = <<>>)

\* C5 as stated: when duplicate removal and relabelling have completed, the
\* labels of init's remaining points are exactly 0..T'-1, T' the number of
\* threads that still have a point.
C5_LabelsContiguous ==
    (Resumed /\ pc = "merge") =>
        Range(init.thread_labels)
            = 0..(Cardinality(Range(init.thread_labels)) - 1)

\* C6 as stated: every init thread handed to the merge step is born at or
\* below its first remaining point and dies at its last remaining point, the
\* row of thread_min_max taken for a thread being the row of its label.
C6_BoundsEnforced ==
    (Resumed /\ pc = "merge") =>
        \A th \in Range(init.thread_labels) :
            LET tl == ThreadLogl(init, th)
            IN  /\ init.thread_min_max[th + 1][1] <= tl[1]
                /\ init.thread_min_max[th + 1][2] = tl[Len(tl)]

\* C7: a run is returned only after check_ns_run received that very run, with
\* its output already set, and passed it; when check_ns_run raises, or at any
\* earlier point, nothing has been returned.
C7_ValidatedBeforeReturn ==
    /\ pc = "returned" =>
          /\ result = checked
          /\ checked = run
          /\ run # NoRun
          /\ run.output.nlike =
                init0.output.nlike + dyn.output.nlike
                    - (IF Resumed THEN dyn_info.resume_nlike ELSE 0)
    /\ pc # "returned" => result = NoRun
    /\ raised = "check_ns_run" => checked = run /\ run # NoRun

C7_Witness ==
    /\ pc = "returned"
    /\ Resumed
    /\ dyn_info.resume_nlike > 0
    /\ result = run

\* C8 as stated: when duplicate removal completes, for every thread with a
\* point beyond the dropped prefix, (a) its first remaining point is removed
\* from init, (b) its own birth bound, and no other thread's, is set to that
\* point's logl, and (c) it is reported empty exactly when that point was its
\* only remaining point.
C8_LivePointPerThread ==
    (Resumed /\ JustDeleted) =>
        /\ init.logl = [j \in 1..Cardinality(KeptLogls) |->
                            SortedSeq(KeptLogls)[j]]
        /\ \A th \in Labels0 :
              init.thread_min_max[th + 1][1] =
                  IF Remaining(th) # {} THEN init0.logl[FirstRemaining(th)]
                  ELSE NegInf
        /\ LET present == SortedSeq({t \in Labels0 : Remaining(t) # {}})
           IN  {present[k + 1] : k \in Range(empty_thread_inds)}
                  = {t \in Labels0 : Cardinality(Remaining(t)) = 1}

\* C9: on the resumed path every birth bound in init's table is -inf or the
\* logl of a point that occurs exactly once in dyn, the orphan-birth check of
\* the merge never fails, and in the merged run every thread's birth is -inf
\* or the logl of a point of another thread.
C9_NoOrphanBirth ==
    Resumed =>
        /\ \A r \in DOMAIN init.thread_min_max :
              \/ init.thread_min_max[r][1] = NegInf
              \/ Count(dyn.logl, init.thread_min_max[r][1]) = 1
        /\ raised # "orphan birth"
        /\ pc = "check_ns_run" =>
              \A k \in DOMAIN run.thread_min_max :
                  \/ run.thread_min_max[k][1] = NegInf
                  \/ \E j \in DOMAIN run.logl :
                        /\ run.logl[j] = run.thread_min_max[k][1]
                        /\ run.thread_labels[j] # k - 1

C9_Witness ==
    /\ Resumed
    /\ pc = "check_ns_run"
    /\ \E k \in DOMAIN run.thread_min_max :
          /\ k > Len(dyn.thread_min_max)
          /\ run.thread_min_max[k][1] # NegInf
          /\ k - 1 \in Range(run.thread_labels)

\* the run indices of attempted whose outcome is in the set outs, in order
IndicesWith(outs) ==
    LET pos == SortedSeq({j \in DOMAIN attempted : attempted[j][2] \in outs})
    IN  [k \in DOMAIN pos |-> attempted[pos[k]][1]]

\* C10: when get_dypolychord_data returns without using the cache and no
\* exception other than OSError, AssertionError or KeyError was raised, it
\* has called process_dypolychord_run for 1..n_runs once each in ascending
\* order; data holds exactly the runs that succeeded, in index order; each
\* failed index is recorded under its exception's name; the cache is written
\* only if save was requested and all n_runs succeeded, and then with data.
C10_BatchIsolation ==
    /\ (b_pc = "returned" /\ ~(load /\ cache_hit)) =>
          /\ [j \in DOMAIN attempted |-> attempted[j][1]] = [j \in 1..n_runs |-> j]
          /\ b_result = [from |-> "runs", data |-> data]
          /\ data = IndicesWith({"ok"})
          /\ \A name \in Caught : errors[name] = IndicesWith({name})
          /\ saved # NoData <=> (save_kw /\ Len(data) = n_runs)
          /\ saved # NoData => saved = [from |-> "runs", data |-> data]
    /\ b_pc \in {"start", "loop", "raised"} => saved = NoData /\ b_result = NoData

C10_Witness ==
    /\ b_pc = "returned"
    /\ ~(load /\ cache_hit)
    /\ save_kw
    /\ n_runs >= 3
    /\ attempted[1][2] = "AssertionError"
    /\ attempted[2][2] = "ok"
    /\ Len(data) = n_runs - 1

====
